---- MODULE Spec2Model ----
(***************************************************************************)
(* Model of led_matrix_battery.led_matrix.display.animations.animation:    *)
(* the Animation class, its playback loop (play), the pause/resume         *)
(* subsystem and the background redraw thread (_paused_display_loop).      *)
(*                                                                         *)
(* Three kinds of tasks run concurrently:                                  *)
(*   - the player task, which calls play() and steps through its loops;    *)
(*   - the controller task, which calls make_thread_safe, pause, resume    *)
(*     and the cursor/navigation operations one after the other;           *)
(*   - the redraw threads started by pause().                              *)
(* The cursor is 0-based as in the source; frames is a 1-based sequence,   *)
(* so the frame at cursor c is frames[c + 1].                              *)
(***************************************************************************)
EXTENDS Integers, Sequences, FiniteSets, TLC

\* ---- bounds ----
MaxFrames == 2     \* largest number of frames of the Animation
MaxDevices == 2    \* longest device list
MaxThreads == 2    \* threading.Thread objects pause() may create in one run
MaxInstances == 2  \* Lock (and Event) objects created in one run

Threads == 1..MaxThreads

\* A device list of n devices in ascending / descending order of identity.
Ascending(n) == [k \in 1..n |-> k]
Descending(n) == [k \in 1..n |-> n + 1 - k]

\* The Animation's own device lists and the lists passed to play().
OwnDeviceLists == {<<>>, Ascending(MaxDevices)}
ArgDeviceLists == {<<>>, Descending(MaxDevices)}

NoEvent == [id |-> 0, flag |-> FALSE]

\* ---- durations, in hundredths of a second ----
\* The default of fallback_frame_duration, 0.33.
DefaultFallback == 33

\* Frame.DEFAULT_DURATION, the duration Frame.from_dict gives a frame whose
\* record has none: a float constant of the Frame class.
DEFAULT_DURATION == 33

\* The durations a frame record may supply and the fallback durations an
\* Animation may be constructed with.
Durations == {0, DEFAULT_DURATION, 200}
Fallbacks == {DefaultFallback, 50}

\* What a frame record says about its duration: nothing, or a duration.
DurationChoices ==
    {[has_duration |-> FALSE, duration |-> 0]}
    \cup {[has_duration |-> TRUE, duration |-> d] : d \in Durations}

\* The frame_data lists of n records; the grid of record k is k.
FrameData(n) ==
    {[k \in 1..n |-> [grid |-> k, has_duration |-> c[k].has_duration,
                      duration |-> c[k].duration]] :
        c \in [1..n -> DurationChoices]}

\* The frame_data list of n records that supply no duration.
PlainData(n) ==
    [k \in 1..n |-> [grid |-> k, has_duration |-> FALSE, duration |-> 0]]

\* The arguments set_all_frame_durations is called with: a value of a type,
\* "str" standing for the types that are neither int nor float.
DurationArgs ==
    {[type |-> "str", val |-> 0],
     [type |-> "int", val |-> -100], [type |-> "int", val |-> 0],
     [type |-> "float", val |-> -50], [type |-> "float", val |-> 50]}

\* float(x) of an int or a float: the float of the same value.
ToFloat(x) == x.val

VARIABLES
    \* ---- fields of Animation ----
    frames,               \* __frames: per frame its grid and its duration
    fallback_frame_duration,  \* __fallback_frame_duration
    frame_data,           \* the frame_data argument of the constructor
    breathe_arg,          \* the breathe_on_pause argument of the constructor
    cursor,               \* __cursor
    devices,              \* __devices
    loop,                 \* __loop
    playing,              \* __playing
    thread_safe,          \* __thread_safe
    making_thread_safe,   \* __making_thread_safe
    breathe_on_pause,     \* __breathe_on_pause
    thread_lock,          \* __thread_lock: 0 is None, else the Lock instance
    pause_event,          \* __pause_event: [id, flag], id 0 is None
    breathing_thread,     \* __breathing_thread: 0 is None, else a thread
    \* ---- the player task, inside play() ----
    ppc,                  \* position in play()
    p_given,              \* play() was given a devices argument (not None)
    p_devs,               \* the devices argument
    p_i,                  \* loop variable i
    p_frame,              \* index of current_frame
    p_dev,                \* position in "for device in devices"
    p_result,             \* outcome of the last play() call
    \* The record of the current pass, kept as long as no cursor operation
    \* of another task has run during the pass (p_clean):
    p_clean,
    p_start,              \* cursor when the pass began
    p_log,                \* its Frame.play calls so far: <<index, device>>
    \* ---- the controller task ----
    cpc,                  \* position in the operation in progress
    c_result,             \* outcome of the last operation called
    c_drawn,              \* frame index being drawn by its Frame.play call, -1 if none
    paused_at,            \* cursor of the pass that pause() interrupted, -1 if none
    \* ---- the redraw threads ----
    tpc                   \* per thread: position in _paused_display_loop

built == <<devices, loop, fallback_frame_duration, frame_data, breathe_arg>>
fixed == <<frames, built>>
sync == <<thread_safe, making_thread_safe, breathe_on_pause, thread_lock,
          pause_event>>
anim == <<fixed, sync, cursor, playing, breathing_thread>>
locals == <<p_given, p_devs, p_i, p_frame, p_dev>>
passed == <<p_clean, p_start, p_log>>
player == <<ppc, locals, p_result, passed>>
controller == <<cpc, c_result, c_drawn>>
vars == <<anim, player, controller, paused_at, tpc>>

\* ---- helpers ----
is_empty == frames = <<>>

Alive(t) == tpc[t] \notin {"unborn", "dead"}

\* play() is inside a pass (between the range() evaluation and the loop test)
InPass == ppc \in {"for", "load", "in_call"}

\* Frame.from_dict(f_dict): the frame of the record's grid, with the record's
\* duration or, if it has none, with Frame.DEFAULT_DURATION.
from_dict(f_dict) ==
    [grid |-> f_dict.grid,
     duration |-> IF f_dict.has_duration THEN f_dict.duration
                  ELSE DEFAULT_DURATION]

\* One turn of the constructor's loop over frame_data: the frame of the
\* record, its duration replaced by the fallback if it equals the sentinel.
FrameBuilt(f_dict, fallback) ==
    IF from_dict(f_dict).duration = DEFAULT_DURATION
    THEN [from_dict(f_dict) EXCEPT !.duration = fallback]
    ELSE from_dict(f_dict)

\* The frames the constructor builds, in the order of the records.
BuildFrames(records, fallback) ==
    [k \in 1..Len(records) |-> FrameBuilt(records[k], fallback)]

\* ---- construction ----
\* Animation.__init__(frame_data, fallback_frame_duration, loop, thread_safe,
\*                    breathe_on_pause, devices)
New(records, fallback, lp, ts, bop, devs) ==
    /\ frame_data = records
    /\ fallback_frame_duration = fallback
    /\ frames = BuildFrames(records, fallback)
    /\ cursor = 0
    /\ devices = devs
    /\ loop = lp
    /\ playing = FALSE
    \* thread_safe: breathe_on_pause = bop, then make_thread_safe() with its
    \* default argument, which assigns __breathe_on_pause = False
    /\ breathe_arg = bop
    /\ thread_safe = ts
    /\ making_thread_safe = ts
    /\ breathe_on_pause = FALSE
    /\ thread_lock = (IF ts THEN 1 ELSE 0)
    /\ pause_event = (IF ts THEN [id |-> 1, flag |-> FALSE] ELSE NoEvent)
    /\ breathing_thread = 0

\* No task has started yet.
Idle ==
    /\ ppc = "idle" /\ p_given = FALSE /\ p_devs = <<>> /\ p_i = 0
    /\ p_frame = 0 /\ p_dev = 0 /\ p_result = "none" /\ p_start = 0
    /\ p_clean = TRUE /\ p_log = <<>>
    /\ cpc = "idle" /\ c_result = "none" /\ c_drawn = -1
    /\ paused_at = -1
    /\ tpc = [t \in Threads |-> "unborn"]

\* Construction from records without durations, with the defaults of
\* fallback_frame_duration and breathe_on_pause.
Init ==
    /\ \E n \in 0..MaxFrames, lp \in BOOLEAN, ts \in BOOLEAN,
          devs \in OwnDeviceLists :
          New(PlainData(n), DefaultFallback, lp, ts, FALSE, devs)
    /\ Idle

\* Construction from records with and without durations, with one of the
\* fallbacks and either value of breathe_on_pause.
InitData ==
    /\ \E n \in 0..MaxFrames, fallback \in Fallbacks, lp \in BOOLEAN,
          ts \in BOOLEAN, bop \in BOOLEAN, devs \in OwnDeviceLists :
          \E records \in FrameData(n) :
             New(records, fallback, lp, ts, bop, devs)
    /\ Idle

\* ---- play() ----
\* play() ends, by a return or by an exception: its locals are gone.
PlayEnds(result) ==
    /\ ppc' = "idle"
    /\ p_result' = result
    /\ p_given' = FALSE /\ p_devs' = <<>> /\ p_i' = 0 /\ p_frame' = 0
    /\ p_dev' = 0
    /\ p_clean' = TRUE /\ p_start' = 0 /\ p_log' = <<>>
    /\ paused_at' = -1

\* The record of the pass with the Frame.play call (index, device) added.
Logged(index, device) ==
    IF p_clean THEN Append(p_log, <<index, device>>) ELSE p_log

\* Variant of the call that marks the animation as playing before the checks.
PlayCallMarksFirst(given, devs) ==
    /\ ppc = "idle"
    /\ playing' = TRUE
    /\ IF is_empty
       THEN /\ p_result' = "EmptyAnimation"
            /\ UNCHANGED <<ppc, p_given, p_devs>>
       ELSE IF (~given \/ devs = <<>>) /\ devices = <<>>
       THEN /\ p_result' = "NoDevices"
            /\ UNCHANGED <<ppc, p_given, p_devs>>
       ELSE /\ ppc' = "while"
            /\ p_given' = given
            /\ p_devs' = devs
            /\ p_result' = "running"
    /\ UNCHANGED <<fixed, sync, cursor, breathing_thread>>
    /\ UNCHANGED <<p_i, p_frame, p_dev, passed>>
    /\ UNCHANGED <<controller, paused_at, tpc>>

\* The call: the two checks, then is_playing = True.
PlayCall(given, devs) ==
    /\ ppc = "idle"
    /\ IF is_empty
       THEN /\ p_result' = "EmptyAnimation"
            /\ UNCHANGED <<playing, ppc, p_given, p_devs>>
       ELSE IF (~given \/ devs = <<>>) /\ devices = <<>>
       THEN /\ p_result' = "NoDevices"
            /\ UNCHANGED <<playing, ppc, p_given, p_devs>>
       ELSE /\ playing' = TRUE
            /\ ppc' = "while"
            /\ p_given' = given
            /\ p_devs' = devs
            /\ p_result' = "running"
    /\ UNCHANGED <<fixed, sync, cursor, breathing_thread>>
    /\ UNCHANGED <<p_i, p_frame, p_dev, passed>>
    /\ UNCHANGED <<controller, paused_at, tpc>>

\* What follows the device loop of frame i: the next i of the range with
\* "self.__cursor = i" still to come, or the end of the range.
AfterDevices(i) == IF i + 1 < Len(frames) THEN "for" ELSE "after_pass"

\* Variant of the loop test that goes on whatever is_playing is.
PlayWhileIgnoresFlag ==
    /\ ppc \in {"while", "again"}
    /\ ppc' = (IF cursor < Len(frames) THEN "for" ELSE "after_pass")
    /\ p_i' = cursor
    /\ p_clean' = TRUE
    /\ p_start' = cursor
    /\ p_log' = <<>>
    /\ UNCHANGED <<p_result, p_given, p_devs, p_frame, p_dev, paused_at>>
    /\ UNCHANGED <<anim, controller, tpc>>

\* Variant of the loop test whose range always starts at index 0.
PlayWhileFromZero ==
    /\ ppc \in {"while", "again"}
    /\ IF playing
       THEN /\ ppc' = "for"
            /\ p_i' = 0
            /\ p_clean' = TRUE
            /\ p_start' = cursor
            /\ p_log' = <<>>
            /\ UNCHANGED <<p_result, p_given, p_devs, p_frame, p_dev,
                           paused_at>>
       ELSE PlayEnds("returned")
    /\ UNCHANGED <<anim, controller, tpc>>

\* "while self.is_playing:" and the evaluation of range(self.__cursor, len).
\* The test is reached from the call ("while") and from the end of a pass
\* ("again").
PlayWhile ==
    /\ ppc \in {"while", "again"}
    /\ IF playing
       THEN /\ ppc' = (IF cursor < Len(frames) THEN "for" ELSE "after_pass")
            /\ p_i' = cursor
            /\ p_clean' = TRUE
            /\ p_start' = cursor
            /\ p_log' = <<>>
            /\ UNCHANGED <<p_result, p_given, p_devs, p_frame, p_dev,
                           paused_at>>
       ELSE PlayEnds("returned")
    /\ UNCHANGED <<anim, controller, tpc>>

\* "for i in range(...)": "self.__cursor = i" for the next i.
PlayFor ==
    /\ ppc = "for"
    /\ cursor' = p_i
    /\ ppc' = "load"
    /\ UNCHANGED <<fixed, sync, playing, breathing_thread>>
    /\ UNCHANGED <<locals, p_result, passed>>
    /\ UNCHANGED <<controller, paused_at, tpc>>

\* "current_frame = self.__frames[self.__cursor]" and the start of
\* "for device in devices:", which iterates the ARGUMENT: iterating None
\* raises TypeError and ends play() with is_playing still True.  Otherwise
\* Frame.play is called for the first device, or the list is empty and the
\* range moves on.
PlayLoad ==
    /\ ppc = "load"
    /\ IF ~p_given
       THEN PlayEnds("TypeError")
       ELSE IF p_devs # <<>>
       THEN /\ ppc' = "in_call"
            /\ p_frame' = cursor
            /\ p_dev' = 1
            /\ p_log' = Logged(cursor, p_devs[1])
            /\ UNCHANGED <<p_result, p_i, p_given, p_devs, p_start, p_clean,
                           paused_at>>
       ELSE /\ ppc' = AfterDevices(p_i)
            /\ p_i' = p_i + 1
            /\ UNCHANGED <<p_result, p_frame, p_dev, p_given, p_devs, passed,
                           paused_at>>
    /\ UNCHANGED <<anim, controller, tpc>>

\* current_frame.play(device) returns: Frame.play is called for the next
\* device, or the device loop ends and the range moves on.
PlayFrameReturn ==
    /\ ppc = "in_call"
    /\ IF p_dev < Len(p_devs)
       THEN /\ p_dev' = p_dev + 1
            /\ p_log' = Logged(p_frame, p_devs[p_dev + 1])
            /\ UNCHANGED <<ppc, p_i, p_frame>>
       ELSE /\ ppc' = AfterDevices(p_i)
            /\ p_i' = p_i + 1
            /\ p_frame' = 0 /\ p_dev' = 0
            /\ UNCHANGED p_log
    /\ UNCHANGED <<p_given, p_devs, p_result, p_start, p_clean>>
    /\ UNCHANGED <<anim, controller, paused_at, tpc>>

\* After the for loop: "if self.__loop: self.__cursor = 0" and otherwise
\* "active_play = False", an assignment to a local nothing reads.
PlayAfterPass ==
    /\ ppc = "after_pass"
    /\ cursor' = (IF loop THEN 0 ELSE cursor)
    /\ ppc' = "again"
    /\ p_i' = 0
    /\ UNCHANGED <<fixed, sync, playing, breathing_thread>>
    /\ UNCHANGED <<p_given, p_devs, p_frame, p_dev, p_result, p_clean,
                   p_start, p_log>>
    /\ UNCHANGED <<controller, paused_at, tpc>>

PlayerNext ==
    \/ \E given \in BOOLEAN, devs \in ArgDeviceLists :
          (given \/ devs = <<>>) /\ PlayCall(given, devs)
    \/ PlayWhile
    \/ PlayFor
    \/ PlayLoad
    \/ PlayFrameReturn
    \/ PlayAfterPass

\* ---- the thread-safety subsystem ----
\* Variant of make_thread_safe without the test of is_thread_safe.
MakeThreadSafeAgain(bop) ==
    /\ cpc = "idle"
    /\ c_result' = "ok"
    /\ IF thread_lock < MaxInstances
       THEN /\ making_thread_safe' = TRUE
            /\ thread_lock' = thread_lock + 1
            /\ pause_event' = [id |-> pause_event.id + 1, flag |-> FALSE]
            /\ breathe_on_pause' = bop
            /\ thread_safe' = TRUE
       ELSE UNCHANGED sync
    /\ UNCHANGED <<fixed, cursor, playing, breathing_thread>>
    /\ UNCHANGED <<player, cpc, c_drawn, paused_at, tpc>>

\* make_thread_safe(breathe_on_pause); its last statement goes through the
\* is_thread_safe setter, which does not call make_thread_safe again because
\* __making_thread_safe is set.
MakeThreadSafe(bop) ==
    /\ cpc = "idle"
    /\ c_result' = "ok"
    /\ IF ~thread_safe
       THEN /\ thread_lock < MaxInstances
            /\ making_thread_safe' = TRUE
            /\ thread_lock' = thread_lock + 1
            /\ pause_event' = [id |-> pause_event.id + 1, flag |-> FALSE]
            /\ breathe_on_pause' = bop
            /\ thread_safe' = TRUE
       ELSE UNCHANGED sync
    /\ UNCHANGED <<fixed, cursor, playing, breathing_thread>>
    /\ UNCHANGED <<player, cpc, c_drawn, paused_at, tpc>>

\* "is_thread_safe = new", the setter: make_thread_safe() with its default
\* argument if new is True and the animation neither is thread-safe nor has
\* ever been made thread-safe (__making_thread_safe is never reset), then
\* "self.__thread_safe = new".
SetThreadSafe(new) ==
    /\ cpc = "idle"
    /\ c_result' = "ok"
    /\ thread_safe' = new
    /\ IF new /\ ~thread_safe /\ ~making_thread_safe
       THEN /\ thread_lock < MaxInstances
            /\ making_thread_safe' = TRUE
            /\ thread_lock' = thread_lock + 1
            /\ pause_event' = [id |-> pause_event.id + 1, flag |-> FALSE]
            /\ breathe_on_pause' = FALSE
       ELSE UNCHANGED <<making_thread_safe, thread_lock, pause_event,
                       breathe_on_pause>>
    /\ UNCHANGED <<fixed, cursor, playing, breathing_thread>>
    /\ UNCHANGED <<player, cpc, c_drawn, paused_at, tpc>>

\* The thread object pause() creates: the first one not created yet.
FreshThread == CHOOSE t \in Threads :
                  tpc[t] = "unborn" /\ \A u \in Threads : u < t => tpc[u] # "unborn"

\* Variant of pause() without the thread-safe check.
PauseUnguarded(keep) ==
    /\ cpc = "idle"
    /\ c_result' = "ok"
    /\ playing' = FALSE
    /\ pause_event' = [pause_event EXCEPT !.flag = FALSE]
    /\ IF keep /\ breathing_thread = 0
       THEN /\ \E t \in Threads : tpc[t] = "unborn"
            /\ breathing_thread' = FreshThread
            /\ tpc' = [tpc EXCEPT ![FreshThread] = "check"]
       ELSE UNCHANGED <<breathing_thread, tpc>>
    /\ paused_at' = (IF InPass THEN cursor ELSE -1)
    /\ UNCHANGED <<fixed, cursor, thread_safe, making_thread_safe,
                   breathe_on_pause, thread_lock>>
    /\ UNCHANGED <<player, cpc, c_drawn>>

\* pause(keep_frame_displayed): the whole body runs under the lock.
Pause(keep) ==
    /\ cpc = "idle"
    /\ IF ~thread_safe
       THEN /\ c_result' = "NotThreadSafe"
            /\ UNCHANGED <<playing, pause_event, breathing_thread, tpc,
                           paused_at>>
       ELSE /\ c_result' = "ok"
            /\ playing' = FALSE
            /\ pause_event' = [pause_event EXCEPT !.flag = FALSE]
            /\ IF keep /\ breathing_thread = 0
               THEN /\ \E t \in Threads : tpc[t] = "unborn"
                    /\ breathing_thread' = FreshThread
                    /\ tpc' = [tpc EXCEPT ![FreshThread] = "check"]
               ELSE UNCHANGED <<breathing_thread, tpc>>
            /\ paused_at' = (IF InPass THEN cursor ELSE -1)
    /\ UNCHANGED <<fixed, cursor, thread_safe, making_thread_safe,
                   breathe_on_pause, thread_lock>>
    /\ UNCHANGED <<player, cpc, c_drawn>>

\* resume(), the part under the lock.
ResumeBegin ==
    /\ cpc = "idle"
    /\ IF ~thread_safe
       THEN /\ c_result' = "NotThreadSafe"
            /\ UNCHANGED <<playing, pause_event, cpc, paused_at>>
       ELSE /\ c_result' = "none"
            /\ playing' = TRUE
            /\ pause_event' = [pause_event EXCEPT !.flag = TRUE]
            /\ cpc' = "inspect"
            /\ paused_at' = -1
    /\ UNCHANGED <<fixed, cursor, thread_safe, making_thread_safe,
                   breathe_on_pause, thread_lock, breathing_thread>>
    /\ UNCHANGED <<player, c_drawn, tpc>>

\* resume(), outside the lock:
\* "if self.__breathing_thread and self.__breathing_thread.is_alive():"
ResumeInspect ==
    /\ cpc = "inspect"
    /\ IF breathing_thread # 0 /\ Alive(breathing_thread)
       THEN /\ cpc' = "join"
            /\ UNCHANGED c_result
       ELSE /\ cpc' = "idle"
            /\ c_result' = "ok"
    /\ UNCHANGED <<anim, player, c_drawn, paused_at, tpc>>

\* "join(timeout=0.1)" returns, because the thread ended or because the
\* timeout ran out, and then "self.__breathing_thread = None".
ResumeJoin ==
    /\ cpc = "join"
    /\ breathing_thread' = 0
    /\ cpc' = "idle"
    /\ c_result' = "ok"
    /\ UNCHANGED <<fixed, sync, cursor, playing>>
    /\ UNCHANGED <<player, c_drawn, paused_at, tpc>>

\* make_thread_safe() is called with its default argument here; NextSafe
\* below adds the call with breathe_on_pause = True.
SyncNext ==
    \/ MakeThreadSafe(FALSE)
    \/ \E keep \in BOOLEAN : Pause(keep)
    \/ ResumeBegin
    \/ ResumeInspect
    \/ ResumeJoin

\* ---- cursor and navigation ----
InBounds(i) == 0 <= i /\ i < Len(frames)

\* A cursor operation of the controller task: if play() is running, the
\* record of its current pass ends here.
Interfere ==
    IF ppc = "idle"
    THEN UNCHANGED <<p_clean, p_start, p_log>>
    ELSE p_clean' = FALSE /\ p_start' = 0 /\ p_log' = <<>>

\* Variant of the cursor setter that accepts len(frames) as an index.
SetCursorUpToLen(new_value) ==
    /\ cpc = "idle"
    /\ IF is_empty
       THEN IF new_value = 0
            THEN cursor' = 0 /\ c_result' = "ok"
            ELSE c_result' = "EmptyAnimation" /\ UNCHANGED cursor
       ELSE IF ~(0 <= new_value /\ new_value <= Len(frames))
            THEN c_result' = "OutOfBounds" /\ UNCHANGED cursor
            ELSE cursor' = new_value /\ c_result' = "ok"
    /\ Interfere
    /\ UNCHANGED <<fixed, sync, playing, breathing_thread>>
    /\ UNCHANGED <<ppc, locals, p_result>>
    /\ UNCHANGED <<cpc, c_drawn, paused_at, tpc>>

\* The cursor setter.
SetCursor(new_value) ==
    /\ cpc = "idle"
    /\ IF is_empty
       THEN IF new_value = 0
            THEN cursor' = 0 /\ c_result' = "ok"
            ELSE c_result' = "EmptyAnimation" /\ UNCHANGED cursor
       ELSE IF ~InBounds(new_value)
            THEN c_result' = "OutOfBounds" /\ UNCHANGED cursor
            ELSE cursor' = new_value /\ c_result' = "ok"
    /\ Interfere
    /\ UNCHANGED <<fixed, sync, playing, breathing_thread>>
    /\ UNCHANGED <<ppc, locals, p_result>>
    /\ UNCHANGED <<cpc, c_drawn, paused_at, tpc>>

\* Variant that reports movement whenever there are frames.
AdvanceMovesAlways(step) == ~is_empty

\* _advance_cursor(step): whether it reports movement, and the cursor it leaves.
AdvanceMoves(step) == ~is_empty /\ (InBounds(cursor + step) \/ loop)

\* Variant of the backward wrap that lands one past the last index.
AdvanceTargetPastEnd(step) ==
    IF is_empty THEN cursor
    ELSE IF InBounds(cursor + step) THEN cursor + step
    ELSE IF loop
         THEN IF cursor + step >= Len(frames) THEN 0 ELSE Len(frames)
         ELSE cursor

AdvanceTarget(step) ==
    IF is_empty THEN cursor
    ELSE IF InBounds(cursor + step) THEN cursor + step
    ELSE IF loop
         THEN IF cursor + step >= Len(frames) THEN 0 ELSE Len(frames) - 1
         ELSE cursor

\* advance(step), the cursor movement on its own.
Advance(step) ==
    /\ cpc = "idle"
    /\ cursor' = AdvanceTarget(step)
    /\ c_result' = (IF AdvanceMoves(step) THEN "ok" ELSE "no_movement")
    /\ Interfere
    /\ UNCHANGED <<fixed, sync, playing, breathing_thread>>
    /\ UNCHANGED <<ppc, locals, p_result>>
    /\ UNCHANGED <<cpc, c_drawn, paused_at, tpc>>

\* Variant of next_frame / previous_frame that draws the current frame also
\* when the movement was refused.
NavigateAlwaysDraws(step) ==
    /\ cpc = "idle"
    /\ IF is_empty
       THEN /\ c_result' = "EmptyAnimation"
            /\ UNCHANGED <<cursor, cpc, c_drawn>>
       ELSE /\ cursor' = AdvanceTarget(step)
            /\ c_drawn' = AdvanceTarget(step)
            /\ c_result' = "none"
            /\ cpc' = "nav_call"
    /\ Interfere
    /\ UNCHANGED <<fixed, sync, playing, breathing_thread>>
    /\ UNCHANGED <<ppc, locals, p_result>>
    /\ UNCHANGED <<paused_at, tpc>>

\* next_frame / previous_frame up to the Frame.play call.
Navigate(step) ==
    /\ cpc = "idle"
    /\ IF is_empty
       THEN /\ c_result' = "EmptyAnimation"
            /\ UNCHANGED <<cursor, cpc, c_drawn>>
       ELSE IF AdvanceMoves(step)
       THEN /\ cursor' = AdvanceTarget(step)
            /\ c_drawn' = AdvanceTarget(step)
            /\ c_result' = "none"
            /\ cpc' = "nav_call"
       ELSE /\ c_result' = "ok"
            /\ UNCHANGED <<cursor, cpc, c_drawn>>
    /\ Interfere
    /\ UNCHANGED <<fixed, sync, playing, breathing_thread>>
    /\ UNCHANGED <<ppc, locals, p_result>>
    /\ UNCHANGED <<paused_at, tpc>>

NextFrame == Navigate(1)

PreviousFrame == Navigate(-1)

\* Variant of play_frame that moves the cursor before it tests the bounds.
PlayFrameSetsFirst(has_index, frame_index) ==
    /\ cpc = "idle"
    /\ IF is_empty
       THEN /\ c_result' = "EmptyAnimation"
            /\ UNCHANGED <<cursor, cpc, c_drawn>>
       ELSE IF has_index /\ ~InBounds(frame_index)
       THEN /\ c_result' = "OutOfBounds"
            /\ cursor' = frame_index
            /\ UNCHANGED <<cpc, c_drawn>>
       ELSE /\ cursor' = (IF has_index THEN frame_index ELSE cursor)
            /\ c_drawn' = (IF has_index THEN frame_index ELSE cursor)
            /\ c_result' = "none"
            /\ cpc' = "frame_call"
    /\ Interfere
    /\ UNCHANGED <<fixed, sync, playing, breathing_thread>>
    /\ UNCHANGED <<ppc, locals, p_result>>
    /\ UNCHANGED <<paused_at, tpc>>

\* play_frame(frame_index, device) up to the Frame.play call; has_index is
\* FALSE for frame_index None.
PlayFrame(has_index, frame_index) ==
    /\ cpc = "idle"
    /\ IF is_empty
       THEN /\ c_result' = "EmptyAnimation"
            /\ UNCHANGED <<cursor, cpc, c_drawn>>
       ELSE IF has_index /\ ~InBounds(frame_index)
       THEN /\ c_result' = "OutOfBounds"
            /\ UNCHANGED <<cursor, cpc, c_drawn>>
       ELSE /\ cursor' = (IF has_index THEN frame_index ELSE cursor)
            /\ c_drawn' = (IF has_index THEN frame_index ELSE cursor)
            /\ c_result' = "none"
            /\ cpc' = "frame_call"
    /\ Interfere
    /\ UNCHANGED <<fixed, sync, playing, breathing_thread>>
    /\ UNCHANGED <<ppc, locals, p_result>>
    /\ UNCHANGED <<paused_at, tpc>>

\* The Frame.play call of next_frame or previous_frame ("nav_call") or of
\* play_frame ("frame_call") returns, and with it the operation.
NavFrameReturn ==
    /\ cpc \in {"nav_call", "frame_call"}
    /\ cpc' = "idle"
    /\ c_result' = "ok"
    /\ c_drawn' = -1
    /\ UNCHANGED <<anim, player, paused_at, tpc>>

\* Variant of set_all_frame_durations that tests for frames first.
SetAllFrameDurationsEmptyFirst(duration) ==
    /\ cpc = "idle"
    /\ IF is_empty
       THEN c_result' = "EmptyAnimation" /\ UNCHANGED frames
       ELSE IF duration.type \notin {"int", "float"}
       THEN c_result' = "InvalidArgument" /\ UNCHANGED frames
       ELSE IF duration.val < 0
       THEN c_result' = "InvalidArgument" /\ UNCHANGED frames
       ELSE /\ frames' = [k \in 1..Len(frames) |->
                            [frames[k] EXCEPT !.duration = ToFloat(duration)]]
            /\ c_result' = "ok"
    /\ UNCHANGED <<built, sync, cursor, playing, breathing_thread>>
    /\ UNCHANGED <<player, cpc, c_drawn, paused_at, tpc>>

\* set_all_frame_durations(duration): the type test, the sign test, the test
\* for frames, then the loop over the frames.
SetAllFrameDurations(duration) ==
    /\ cpc = "idle"
    /\ IF duration.type \notin {"int", "float"}
       THEN c_result' = "InvalidArgument" /\ UNCHANGED frames
       ELSE IF duration.val < 0
       THEN c_result' = "InvalidArgument" /\ UNCHANGED frames
       ELSE IF is_empty
       THEN c_result' = "EmptyAnimation" /\ UNCHANGED frames
       ELSE /\ frames' = [k \in 1..Len(frames) |->
                            [frames[k] EXCEPT !.duration = ToFloat(duration)]]
            /\ c_result' = "ok"
    /\ UNCHANGED <<built, sync, cursor, playing, breathing_thread>>
    /\ UNCHANGED <<player, cpc, c_drawn, paused_at, tpc>>

NavNext ==
    \/ \E v \in -1..MaxFrames : SetCursor(v)
    \/ \E step \in {1, -1} : Advance(step)
    \/ NextFrame
    \/ PreviousFrame
    \/ \E v \in -1..MaxFrames : PlayFrame(TRUE, v)
    \/ PlayFrame(FALSE, 0)
    \/ NavFrameReturn

\* ---- _paused_display_loop, one instance per thread ----
\* A thread at "check" is between two iterations: in sleep(1), or about to
\* test the event.  The step is the test
\* "while not self.__pause_event.is_set():" and, inside the loop,
\* "current_frame = self.__frames[self.cursor]" (an IndexError that ends the
\* thread when there are no frames), then "for device in self.devices:"
\* begins: the thread is inside the Frame.play calls of this iteration, or
\* the list is empty and it sleeps again.
ThreadCheck(t) ==
    /\ tpc[t] = "check"
    /\ tpc' = [tpc EXCEPT ![t] =
                  IF pause_event.flag \/ is_empty THEN "dead"
                  ELSE IF devices # <<>> THEN "draw"
                  ELSE "check"]
    /\ UNCHANGED <<anim, player, controller, paused_at>>

\* The last current_frame.play(device) of the iteration returns and
\* sleep(1) begins.
ThreadDrawn(t) ==
    /\ tpc[t] = "draw"
    /\ tpc' = [tpc EXCEPT ![t] = "check"]
    /\ UNCHANGED <<anim, player, controller, paused_at>>

ThreadNext(t) ==
    \/ ThreadCheck(t)
    \/ ThreadDrawn(t)

RedrawNext == \E t \in Threads : ThreadNext(t)

\* ---- specifications ----
\* Every interleaving of the player task, the controller task and the
\* redraw threads.
Next == PlayerNext \/ SyncNext \/ NavNext \/ RedrawNext

Spec == Init /\ [][Next]_vars

\* The concurrent use the class is written for: pause() and resume() from
\* another task while play() runs, the cursor operations only while play()
\* is not running.
NextUse ==
    \/ PlayerNext
    \/ SyncNext
    \/ ppc = "idle" /\ NavNext
    \/ RedrawNext

SpecUse == Init /\ [][NextUse]_vars

\* One task alone: play() and the cursor operations one after the other, no
\* pause() and no resume().
NextOneTask ==
    \/ cpc = "idle" /\ PlayerNext
    \/ ppc = "idle" /\ NavNext

SpecOneTask == Init /\ [][NextOneTask]_vars

\* One task alone, on an animation constructed from records of every kind.
SpecBuild == InitData /\ [][NextOneTask]_vars

\* One task alone that also sets the durations of all frames.
NextData ==
    \/ NextOneTask
    \/ /\ ppc = "idle"
       /\ \E duration \in DurationArgs : SetAllFrameDurations(duration)

SpecData == InitData /\ [][NextData]_vars

\* The thread-safety subsystem on its own: make_thread_safe, assignments to
\* is_thread_safe, pause() and resume(), and the redraw threads.
NextSafe ==
    \/ SyncNext
    \/ MakeThreadSafe(TRUE)
    \/ \E new \in BOOLEAN : SetThreadSafe(new)
    \/ RedrawNext

SpecSafe == Init /\ [][NextSafe]_vars

\* The steps of a play() call in progress.
PlayerRuns == PlayWhile \/ PlayFor \/ PlayLoad \/ PlayFrameReturn \/ PlayAfterPass

\* The steps of a controller operation in progress.
ControllerRuns == ResumeInspect \/ ResumeJoin \/ NavFrameReturn

\* Every task is scheduled fairly: a call in progress goes on, and so does
\* every redraw thread.  Whether and when play(), pause(), resume() and the
\* cursor operations are called is up to the callers.
FairSpecUse ==
    /\ SpecUse
    /\ WF_vars(PlayerRuns)
    /\ WF_vars(ControllerRuns)
    /\ \A t \in Threads : WF_vars(ThreadNext(t))

\* ---- properties ----
IsPrefix(s, t) == Len(s) <= Len(t) /\ \A k \in 1..Len(s) : s[k] = t[k]

\* The Frame.play calls of one forward pass from cursor c over the device
\* list devs: indices c .. len(frames)-1, each on every device in list order.
PassCalls(c, devs) ==
    [k \in 1..((Len(frames) - c) * Len(devs)) |->
        <<c + ((k - 1) \div Len(devs)), devs[((k - 1) % Len(devs)) + 1]>>]

\* C1: play() on a non-looping animation with a non-empty device list, with
\* no pause() or resume() from another task, calls Frame.play for the indices
\* c .. len(frames)-1 only, once per device, c being the cursor at the call,
\* and then returns: the loop test after the pass does not begin another pass.
C1_SinglePassThenReturn ==
    /\ [](~loop /\ ppc # "idle" /\ p_devs # <<>> /\ p_clean
             => IsPrefix(p_log, PassCalls(p_start, p_devs)))
    /\ [][~loop /\ p_devs # <<>> /\ ppc = "again" => ppc' = "idle"]_vars

\* C2: play() without a devices argument, on an animation with frames and
\* with devices of its own, does not fail and draws on the animation's own
\* devices in list order.
C2_OwnDevicesUsed ==
    /\ p_result # "TypeError"
    /\ ppc = "in_call" /\ ~p_given /\ p_clean
          => /\ p_log # <<>>
             /\ IsPrefix(p_log, PassCalls(p_start, devices))

\* C3: play() on an animation without frames fails with EmptyAnimation; with
\* frames but no devices argument and no devices of its own it fails with
\* NoDevices; either way play() is over, no Frame.play call was made, and
\* is_playing and cursor are what they were.
C3_PlayRejects ==
    [][\A given \in BOOLEAN, devs \in ArgDeviceLists :
          (given \/ devs = <<>>) /\ PlayCall(given, devs)
          => /\ is_empty
                   => /\ p_result' = "EmptyAnimation"
                      /\ ppc' = "idle"
                      /\ UNCHANGED <<playing, cursor, p_log>>
             /\ ~is_empty /\ (~given \/ devs = <<>>) /\ devices = <<>>
                   => /\ p_result' = "NoDevices"
                      /\ ppc' = "idle"
                      /\ UNCHANGED <<playing, cursor, p_log>>]_vars

\* play() was refused for want of devices while is_playing was set.
C3_Witness ==
    /\ p_result = "NoDevices"
    /\ ~is_empty /\ devices = <<>>
    /\ ppc = "idle" /\ playing

\* C4: in every state, whatever operations ran and however they interleaved,
\* 0 <= cursor < len(frames) when there are frames and cursor = 0 when there
\* are none.
C4_CursorInv ==
    IF is_empty THEN cursor = 0 ELSE 0 <= cursor /\ cursor < Len(frames)

\* play() is drawing the last of several frames while a cursor operation of
\* the controller task has just been refused.
C4_Witness ==
    /\ Len(frames) > 1 /\ cursor = Len(frames) - 1
    /\ ppc = "in_call"
    /\ c_result = "OutOfBounds"

\* C5: once pause() has completed during a pass, and until a resume(), play()
\* is in no Frame.play call for a frame index other than the one the pass
\* was at when pause() completed.
C5_PauseStopsPass ==
    paused_at # -1 /\ ppc = "in_call" => p_frame = paused_at

\* C6: when pause(keep_frame_displayed = True) returns on a thread-safe
\* animation with frames, a redraw thread is alive.
C6_PauseLeavesRedraw ==
    [][Pause(TRUE) /\ thread_safe /\ ~is_empty
          => \E t \in Threads : tpc'[t] \notin {"unborn", "dead"}]_vars

\* C7: at most one redraw thread is alive at any time.
C7_OneRedrawThread ==
    Cardinality({t \in Threads : Alive(t)}) <= 1

\* C8: a redraw thread that is alive while the pause event is set (resume()
\* has set it) eventually leaves its loop; stated for an animation that has
\* devices to redraw on.
C8_RedrawStops ==
    \A t \in Threads :
        (devices # <<>> /\ pause_event.flag /\ Alive(t)) ~> ~Alive(t)

\* C9: on an animation that is not thread-safe, pause() and resume() fail
\* with NotThreadSafe and leave is_playing, the pause event, the thread handle
\* and the threads as they were; on a thread-safe one pause() succeeds, and
\* resume() succeeds and returns with is_playing true.
C9_ThreadSafeRequired ==
    [][/\ \A keep \in BOOLEAN :
             Pause(keep) /\ ~thread_safe
             => /\ c_result' = "NotThreadSafe"
                /\ UNCHANGED <<playing, pause_event, breathing_thread, tpc>>
       /\ ResumeBegin /\ ~thread_safe
             => /\ c_result' = "NotThreadSafe"
                /\ cpc' = "idle"
                /\ UNCHANGED <<playing, pause_event, breathing_thread, tpc>>
       /\ \A keep \in BOOLEAN :
             Pause(keep) /\ thread_safe => c_result' = "ok" /\ ~playing'
       /\ ResumeBegin /\ thread_safe => playing' /\ cpc' = "inspect"
       /\ (ResumeInspect \/ ResumeJoin) /\ cpc' = "idle"
             => c_result' = "ok" /\ playing']_vars

\* pause() started a redraw thread and resume() has returned: is_playing is
\* true again and the handle is cleared.
C9_Witness ==
    /\ thread_safe /\ pause_event.flag /\ playing
    /\ cpc = "idle" /\ c_result = "ok"
    /\ breathing_thread = 0
    /\ \E t \in Threads : tpc[t] # "unborn"

\* C10: with loop set and no pause(), play() never returns.
C10_LoopNeverReturns ==
    loop => p_result \notin {"returned", "TypeError"}

\* C11: within one pass of play() the Frame.play calls made so far are the
\* beginning of the sequence c, c+1, ..., len(frames)-1 (each index on every
\* device of the list, in list order), c being the cursor when the pass
\* began, and a pass that has run to its end has made all of them; pause()
\* and resume() of another task change nothing of it.
C11_PassInOrder ==
    /\ ppc # "idle" /\ p_clean => IsPrefix(p_log, PassCalls(p_start, p_devs))
    /\ ppc = "after_pass" /\ p_clean => p_log = PassCalls(p_start, p_devs)

\* A pass that began above index 0 has run to its end although pause()
\* completed while it was running.
C11_Witness ==
    /\ ppc = "after_pass" /\ p_clean
    /\ p_start > 0 /\ p_log # <<>>
    /\ ~playing /\ paused_at # -1

\* C12: advance(step), step +1 or -1, on an animation with frames: a target
\* in bounds becomes the cursor and movement is reported; past the last index
\* or below index 0, without loop "no movement" is reported and the cursor
\* stays, with loop the cursor wraps to 0 (step +1) or to len(frames)-1
\* (step -1) and movement is reported.
C12_AdvanceSteps ==
    [][\A step \in {1, -1} :
          Advance(step) /\ ~is_empty
          => /\ InBounds(cursor + step)
                   => cursor' = cursor + step /\ c_result' = "ok"
             /\ ~InBounds(cursor + step) /\ ~loop
                   => cursor' = cursor /\ c_result' = "no_movement"
             /\ cursor + step = Len(frames) /\ loop
                   => cursor' = 0 /\ c_result' = "ok"
             /\ cursor + step = -1 /\ loop
                   => cursor' = Len(frames) - 1 /\ c_result' = "ok"]_vars

\* advance was refused at the last of several frames of a non-looping
\* animation.
C12_Witness ==
    /\ c_result = "no_movement" /\ ~loop
    /\ Len(frames) > 1 /\ cursor = Len(frames) - 1

\* C13: play_frame on an animation without frames fails with EmptyAnimation;
\* with an index outside 0 .. len(frames)-1 it fails with OutOfBounds, draws
\* nothing and leaves the cursor; with an index in bounds the cursor becomes
\* the index, the frame at the index is the one drawn, and the call returns
\* after that one Frame.play call with the cursor where it set it.
C13_PlayFrameChecked ==
    [][/\ \A has_index \in BOOLEAN, v \in -1..MaxFrames :
             PlayFrame(has_index, v)
             => /\ is_empty
                      => /\ c_result' = "EmptyAnimation" /\ cpc' = "idle"
                         /\ UNCHANGED <<cursor, c_drawn>>
                /\ ~is_empty /\ has_index /\ (v < 0 \/ v >= Len(frames))
                      => /\ c_result' = "OutOfBounds" /\ cpc' = "idle"
                         /\ UNCHANGED <<cursor, c_drawn>>
                /\ ~is_empty /\ has_index /\ 0 <= v /\ v < Len(frames)
                      => cursor' = v /\ c_drawn' = v /\ cpc' = "frame_call"
       /\ cpc = "frame_call" /\ cpc' # "frame_call"
             => /\ cpc' = "idle" /\ c_result' = "ok"
                /\ c_drawn' = -1 /\ cursor' = c_drawn]_vars

\* play_frame is drawing the frame at an index above 0 that it was given.
C13_Witness ==
    cpc = "frame_call" /\ c_drawn = cursor /\ cursor > 0

\* C14: set_all_frame_durations(d) with d < 0 fails with InvalidArgument and
\* leaves the frames as they are; with d >= 0 on an animation without frames
\* it fails with EmptyAnimation; with d >= 0 on an animation with frames it
\* succeeds, the frames are the same frames in the same order, each with
\* duration d, and cursor, loop and is_playing are unchanged.
C14_SetAllDurations ==
    [][\A d \in DurationArgs :
          SetAllFrameDurations(d) /\ d.type \in {"int", "float"}
          => /\ d.val < 0
                   => c_result' = "InvalidArgument" /\ frames' = frames
             /\ d.val >= 0 /\ is_empty
                   => c_result' = "EmptyAnimation" /\ frames' = frames
             /\ d.val >= 0 /\ ~is_empty
                   => /\ c_result' = "ok"
                      /\ Len(frames') = Len(frames)
                      /\ \A k \in 1..Len(frames) :
                            /\ frames'[k].grid = frames[k].grid
                            /\ frames'[k].duration = d.val
                      /\ UNCHANGED <<cursor, loop, playing>>]_vars

\* Several frames constructed with durations of their own all have the
\* duration 0.5 after set_all_frame_durations(0.5), the cursor above 0 and
\* is_playing set.
C14_Witness ==
    /\ c_result = "ok" /\ Len(frames) > 1
    /\ \A k \in 1..Len(frames) :
          /\ frames[k].duration = 50
          /\ frame_data[k].has_duration /\ frame_data[k].duration # 50
    /\ fallback_frame_duration # 50
    /\ cursor > 0 /\ playing

\* C15: the frames of a constructed animation are the frames of the records
\* in the order of the records, and the duration of each is the record's own
\* duration if the record supplies one, whatever its value, and the fallback
\* duration if it supplies none.
C15_DurationsBuilt ==
    /\ Len(frames) = Len(frame_data)
    /\ \A k \in 1..Len(frames) :
          /\ frames[k].grid = frame_data[k].grid
          /\ frames[k].duration =
                IF frame_data[k].has_duration THEN frame_data[k].duration
                ELSE fallback_frame_duration

\* C16: once the animation holds a lock and a pause event, it holds the same
\* lock and the same event ever after.
C16_InstancesKept ==
    [][thread_lock # 0
          => thread_lock' = thread_lock /\ pause_event'.id = pause_event.id]_vars

\* C17: the handle of the redraw thread is absent as long as pause() has
\* started no thread, and it is absent whenever resume() returns.
C17_HandleOnlyWhilePaused ==
    /\ []((\A t \in Threads : tpc[t] = "unborn") => breathing_thread = 0)
    /\ [][(ResumeInspect \/ ResumeJoin) /\ cpc' = "idle"
            => breathing_thread' = 0]_vars

\* C18: with loop set, whenever is_playing is true again after a pause()
\* that came during a play() call (resume() has set it), that play() call
\* has not returned.
C18_ResumedPlayGoesOn ==
    loop /\ playing => p_result # "returned"

\* C19: with loop set, a play() call in progress while is_playing is false
\* (pause() has cleared it) comes to its end unless resume() sets is_playing
\* again; it ends with is_playing still false and, if it was given devices,
\* by returning.
C19_PausedPlayReturns ==
    /\ (loop /\ ppc # "idle" /\ ~playing) ~> (ppc = "idle" \/ playing)
    /\ [][loop /\ ppc # "idle" /\ ppc' = "idle" /\ ~playing
            => ~playing' /\ (p_given => p_result' = "returned")]_vars

\* The play() call of a looping animation has returned and is_playing is
\* false.
C19_Witness ==
    loop /\ ppc = "idle" /\ p_result = "returned" /\ ~playing

\* C20: next_frame and previous_frame fail with EmptyAnimation on an
\* animation without frames; otherwise, if the target is in bounds or loop is
\* set, the cursor moves and the frame at the new cursor is the one drawn,
\* and if not, nothing is drawn and the cursor stays; the call returns after
\* that one Frame.play call without moving the cursor again.
C20_NavigateDraws ==
    [][/\ \A step \in {1, -1} :
             Navigate(step)
             => /\ is_empty
                      => /\ c_result' = "EmptyAnimation" /\ cpc' = "idle"
                         /\ UNCHANGED <<cursor, c_drawn>>
                /\ ~is_empty /\ (InBounds(cursor + step) \/ loop)
                      => /\ cpc' = "nav_call" /\ c_drawn' = cursor'
                         /\ InBounds(cursor + step) => cursor' = cursor + step
                         /\ cursor + step = Len(frames) => cursor' = 0
                         /\ cursor + step = -1 => cursor' = Len(frames) - 1
                /\ ~is_empty /\ ~InBounds(cursor + step) /\ ~loop
                      => /\ cpc' = "idle" /\ c_result' = "ok"
                         /\ UNCHANGED <<cursor, c_drawn>>
       /\ cpc = "nav_call" /\ cpc' # "nav_call"
             => /\ cpc' = "idle" /\ c_result' = "ok"
                /\ c_drawn' = -1 /\ cursor' = c_drawn
       /\ cpc = "idle" => c_drawn = -1]_vars

\* previous_frame or next_frame is drawing the last of several frames.
C20_Witness ==
    cpc = "nav_call" /\ Len(frames) > 1 /\ c_drawn = Len(frames) - 1

\* C21: the cursor setter, given i: without frames it accepts i = 0, which
\* leaves the cursor 0, and fails with EmptyAnimation for any other i; with
\* frames it fails with OutOfBounds unless 0 <= i < len(frames); a failing
\* call leaves the cursor, a successful one makes it i; either way the
\* frames, the devices, loop, is_playing and the thread-safety subsystem are
\* what they were.
C21_SetCursorChecked ==
    [][\A i \in -1..MaxFrames :
          SetCursor(i)
          => /\ is_empty /\ i # 0
                   => c_result' = "EmptyAnimation" /\ cursor' = cursor
             /\ is_empty /\ i = 0
                   => c_result' = "ok" /\ cursor' = 0 /\ cursor = 0
             /\ ~is_empty /\ (i < 0 \/ i >= Len(frames))
                   => c_result' = "OutOfBounds" /\ cursor' = cursor
             /\ ~is_empty /\ 0 <= i /\ i < Len(frames)
                   => c_result' = "ok" /\ cursor' = i
             /\ UNCHANGED <<fixed, sync, playing, breathing_thread, cpc,
                            c_drawn>>]_vars

\* The cursor of an animation without frames was set to 0: no other
\* operation of the single task succeeds on such an animation.
C21_Witness ==
    is_empty /\ c_result = "ok" /\ cpc = "idle" /\ cursor = 0

\* C22: make_thread_safe on an animation that is thread-safe changes nothing:
\* the lock, the pause event and its flag, breathe_on_pause whatever the
\* argument, is_playing and the thread handle stay; on an animation that is
\* not thread-safe it leaves it thread-safe, with a lock and with a pause
\* event that is cleared.
C22_MakeThreadSafeOnce ==
    [][\A bop \in BOOLEAN :
          MakeThreadSafe(bop)
          => /\ thread_safe
                   => UNCHANGED <<thread_safe, thread_lock, pause_event,
                                  breathe_on_pause, playing, breathing_thread>>
             /\ ~thread_safe
                   => /\ thread_safe' /\ thread_lock' # 0
                      /\ pause_event'.id # 0 /\ ~pause_event'.flag
                      /\ breathe_on_pause' = bop]_vars

\* A thread-safe animation whose pause event is set, with breathe_on_pause
\* set and a thread handle in place, after a call that succeeded.
C22_Witness ==
    /\ thread_safe /\ thread_lock = 1 /\ pause_event.flag
    /\ breathe_on_pause /\ breathing_thread # 0
    /\ cpc = "idle" /\ c_result = "ok"

\* C23: an animation constructed thread-safe with breathe_on_pause = b has
\* breathe_on_pause = b.
C23_BreatheArgumentKept ==
    thread_safe => breathe_on_pause = breathe_arg

\* C24: no Frame.play call of play() is in progress while a Frame.play call
\* of a redraw thread is in progress.
C24_DrawingExclusive ==
    ~(ppc = "in_call" /\ \E t \in Threads : tpc[t] = "draw")
====
